---- MODULE Spec2Model ----
(***************************************************************************)
(* Movement, collision and proximity-trigger core of world-of-samarth.    *)
(*                                                                         *)
(* Numbers.  The program computes in IEEE doubles; the model computes in   *)
(* integers with fixed scales that make every constant of the program an   *)
(* integer:                                                                *)
(*   lengths     in 1e-4 world units   (1.6 -> 16000, 1e-3 -> 10)          *)
(*   speeds      in 1e-4 world units per second                            *)
(*   time        in milliseconds (performance.now())                      *)
(*   angles      in 1e-5 radians       (0.00375 -> 375, pi -> 314159)      *)
(* A product "speed * dt" is (speed * dtMs) / 1000, rounded to the nearest *)
(* 1e-4 unit; walking along an axis (3.5 * dt) and gravity (20 * dt) are   *)
(* exact for every whole number of milliseconds.  The normalised diagonal  *)
(* direction (1/sqrt 2) is rounded as well.  The sine and cosine of the    *)
(* yaw are Bhaskara's rational approximation, in thousandths: exact at     *)
(* 0 and at the quarter turns, within 0.002 elsewhere.                     *)
(*                                                                         *)
(* The repository holds two versions of the application: src/src/App.tsx   *)
(* and src/unnamed/part_000.  MovementControls differs between them        *)
(* (velocity smoothing, forced end of climbing, touch support); the        *)
(* variable build says which of the two is running.                        *)
(***************************************************************************)
EXTENDS Integers, Sequences, FiniteSets, TLC

VARIABLES
  build,                    \* "App" (src/src/App.tsx) or "part_000"
  IS_TOUCH,                 \* touch device flag, fixed at load
  now,                      \* performance.now(), ms
  GLOBAL_BLOCKERS, GLOBAL_WALK_SURFACES, GLOBAL_CLIMB_VOLUMES,
  GLOBAL_INTERIOR_BLOCKERS, \* the geometry registry
  position,                 \* camera.position [x, y, z]; y is the eye height
  velocity,                 \* smoothed horizontal velocity [x, z] (part_000)
  vY,                       \* vertical velocity
  last,                     \* time of the previous frame
  keys,                     \* names (e.key lower-cased, e.code) held down
  joy,                      \* joystick vector [x, y], thousandths
  activeId,                 \* TC_LeftStick: identifier of the touch on the stick, 0 for null
  climbing, climbVolRef, lastLadderToggle,
  yaw, pitch,               \* look angles of MouseLookControls, 1e-5 rad
  locked,                   \* MouseLookControls: the canvas holds the pointer lock
  activeBoard, exhibit, insideHouseId, prompt, darkMode,   \* App state
  inRange,                  \* InteractAtPoint instance -> in-range flag
  ev,                       \* what the last step did (observation only)
  steps                     \* number of steps taken (bounds the runs)

vars == << build, IS_TOUCH, now, GLOBAL_BLOCKERS, GLOBAL_WALK_SURFACES,
           GLOBAL_CLIMB_VOLUMES, GLOBAL_INTERIOR_BLOCKERS, position, velocity,
           vY, last, keys, joy, activeId, climbing, climbVolRef, lastLadderToggle, yaw,
           pitch, locked, activeBoard, exhibit, insideHouseId, prompt, darkMode, inRange,
           ev, steps >>

NULL == "null"

(***************************************************************************)
(* Bounds of the exploration                                               *)
(***************************************************************************)
MaxSteps == 4

(***************************************************************************)
(* Program constants                                                       *)
(***************************************************************************)
ARENA_HALF == 260000
EDGE_PAD == 1200
PROBE_FACTOR == 55          \* hundredths
GROUND_SNAP == 2500
MAX_STEP == 4500
MAX_UP_SNAP == 5000
ROOF_GRACE_MS == 1200
baseEye == 16000
gravity == 200000
jumpSpeed == 75000
climbSpeed == 30000
radius == 4000
speed == 35000
sprint == 19                \* tenths
LERP_ALPHA == 18            \* hundredths
EPS_Y == 200                \* 0.02, feet/head inset of the collision span
EPS_OVERLAP == 10           \* 1e-3, vertical overlap margin
EPS_GROUND == 50            \* 0.005, "on ground" tolerance
CLIMB_OVERSHOOT == 2000     \* 0.2 above the top of a climb volume

\* Math.PI; the props of MouseLookControls; Math.PI / 2 - 0.05
PI5 == 314159
initialYaw == 0
initialPitch == -10000
maxPitch == 152080
\* mobile-look sensitivity, 0.0066 rad per pixel
touchLookS == 660

\* the value of a one-element set (binds an intermediate result of a frame)
The(S) == CHOOSE r \in S : TRUE

Abs(n) == IF n < 0 THEN -n ELSE n
Max(a, b) == IF a >= b THEN a ELSE b
Min(a, b) == IF a <= b THEN a ELSE b

\* n / d rounded to the nearest integer, symmetric about 0 (d > 0)
Round(n, d) == IF n >= 0 THEN (n + d \div 2) \div d
                         ELSE -(((-n) + d \div 2) \div d)

\* v * dt for a speed v (1e-4 units per second) and dt in ms
Times(v, dt) == Round(v * dt, 1000)

RECURSIVE ISqrtIn(_, _, _)
ISqrtIn(n, lo, hi) ==
  IF lo >= hi THEN lo
  ELSE LET mid == (lo + hi + 1) \div 2
       IN IF mid * mid <= n THEN ISqrtIn(n, mid, hi) ELSE ISqrtIn(n, lo, mid - 1)
\* floor of the square root, for 0 <= n < 2^30
ISqrt(n) == ISqrtIn(n, 0, 32767)

AABB(minX, minY, minZ, maxX, maxY, maxZ, tag) ==
  [min |-> <<minX, minY, minZ>>, max |-> <<maxX, maxY, maxZ>>, tag |-> tag]

\* Clamp without its Math.max: the lower bound is not enforced
ClampNoFloor(v, lo, hi) == Min(hi, v)

\* Math.max(-H, Math.min(H, v))
Clamp(v, lo, hi) == Max(lo, Min(hi, v))

(***************************************************************************)
(* World layout (World, the geometry effect)                               *)
(***************************************************************************)
houseDefs ==
  << [id |-> "house-0", x |-> -160000, z |-> -120000],
     [id |-> "house-1", x |->  160000, z |-> -100000],
     [id |-> "house-2", x |-> -140000, z |->  140000],
     [id |-> "house-3", x |->  140000, z |->  140000] >>
baseW == 80000
baseH == 44000
baseD == 80000
roofT == 4000
ld == 5000

doorWorld(h) == [x |-> h.x, y |-> 0, z |-> h.z + baseD \div 2 + 1000]
insideSpawn(h) == [x |-> h.x, y |-> 16000, z |-> h.z + baseD \div 2 - 20000]
ladderX(h) == h.x + (baseW * 35) \div 100
ladderZ(h) == h.z + baseD \div 2 + ld \div 2 + 200

fixedTrees == << <<-30000, -60000>>, <<60000, -30000>>, <<-60000, 50000>>, <<40000, -80000>> >>
\* Math.cos/sin((i / 18) * 2 pi) * 20, rounded to 1e-4
ringTrees ==
  << <<200000, 0>>,
     <<187939, 68404>>,
     <<153209, 128558>>,
     <<100000, 173205>>,
     <<34730, 196962>>,
     <<-34730, 196962>>,
     <<-100000, 173205>>,
     <<-153209, 128558>>,
     <<-187939, 68404>>,
     <<-200000, 0>>,
     <<-187939, -68404>>,
     <<-153209, -128558>>,
     <<-100000, -173205>>,
     <<-34730, -196962>>,
     <<34730, -196962>>,
     <<100000, -173205>>,
     <<153209, -128558>>,
     <<187939, -68404>> >>
\* Math.cos/sin(i * 1.6 / 14) * 14, rounded to 1e-4; h = 0.8 + 0.35 i
getParkourDefs ==
  << [x |-> 140000, z |-> 0, w |-> 16000, d |-> 16000, h |-> 8000],
     [x |-> 139087, z |-> 15965, w |-> 16000, d |-> 16000, h |-> 11500],
     [x |-> 136359, z |-> 31722, w |-> 16000, d |-> 16000, h |-> 15000],
     [x |-> 131852, z |-> 47065, w |-> 16000, d |-> 16000, h |-> 18500],
     [x |-> 125624, z |-> 61794, w |-> 16000, d |-> 16000, h |-> 22000],
     [x |-> 117758, z |-> 75717, w |-> 16000, d |-> 16000, h |-> 25500],
     [x |-> 108355, z |-> 88652, w |-> 16000, d |-> 16000, h |-> 29000],
     [x |-> 97539, z |-> 100430, w |-> 16000, d |-> 16000, h |-> 32500],
     [x |-> 85450, z |-> 110898, w |-> 16000, d |-> 16000, h |-> 36000],
     [x |-> 72246, z |-> 119919, w |-> 16000, d |-> 16000, h |-> 39500],
     [x |-> 58100, z |-> 127375, w |-> 16000, d |-> 16000, h |-> 43000],
     [x |-> 43195, z |-> 133170, w |-> 16000, d |-> 16000, h |-> 46500],
     [x |-> 27727, z |-> 137227, w |-> 16000, d |-> 16000, h |-> 50000],
     [x |-> 11897, z |-> 139494, w |-> 16000, d |-> 16000, h |-> 53500],
     [x |-> -4088, z |-> 139940, w |-> 16000, d |-> 16000, h |-> 57000],
     [x |-> -20020, z |-> 138561, w |-> 16000, d |-> 16000, h |-> 60500],
     [x |-> -35690, z |-> 135374, w |-> 16000, d |-> 16000, h |-> 64000],
     [x |-> -50895, z |-> 130421, w |-> 16000, d |-> 16000, h |-> 67500] >>

treeBlocker(t) ==
  AABB(t[1] - 3000, 0, t[2] - 3000, t[1] + 3000, 20000, t[2] + 3000, "")
houseBlocker(h) ==
  AABB(h.x - baseW \div 2, 0, h.z - baseD \div 2,
       h.x + baseW \div 2, baseH, h.z + baseD \div 2, h.id)
\* over = 0.6, inset = 0.1
houseRoofWalk(h) ==
  AABB(h.x - (baseW + 6000) \div 2 + 1000, baseH, h.z - (baseD + 6000) \div 2 + 1000,
       h.x + (baseW + 6000) \div 2 - 1000, baseH + 1200, h.z + (baseD + 6000) \div 2 - 1000, "")
houseClimb(h) ==
  AABB(ladderX(h) - 4000, 0, ladderZ(h) - ld \div 2,
       ladderX(h) + 4000, baseH + roofT, ladderZ(h) + ld \div 2, "")
parkourBlocker(b) ==
  AABB(b.x - b.w \div 2, 0, b.z - b.d \div 2, b.x + b.w \div 2, b.h, b.z + b.d \div 2, "")
\* over = 0.06
parkourWalk(b) ==
  AABB(b.x - b.w \div 2 - 600, b.h - 200, b.z - b.d \div 2 - 600,
       b.x + b.w \div 2 + 600, b.h + 2000, b.z + b.d \div 2 + 600, "")
\* wallH = 10, thick = 0.6, span = 2 H + 2
arenaWalls ==
  LET H == ARENA_HALF
      span == H * 2 + 20000
  IN << AABB(H, 0, -(span \div 2), H + 6000, 100000, span \div 2, ""),
        AABB(-H - 6000, 0, -(span \div 2), -H, 100000, span \div 2, ""),
        AABB(-(span \div 2), 0, H, span \div 2, 100000, H + 6000, ""),
        AABB(-(span \div 2), 0, -H - 6000, span \div 2, 100000, -H, "") >>

MapSeq(F(_), s) == [i \in 1..Len(s) |-> F(s[i])]

worldBlockers ==
  MapSeq(treeBlocker, fixedTrees \o ringTrees) \o MapSeq(houseBlocker, houseDefs)
    \o MapSeq(parkourBlocker, getParkourDefs) \o arenaWalls
worldWalk == MapSeq(houseRoofWalk, houseDefs) \o MapSeq(parkourWalk, getParkourDefs)
worldClimb == MapSeq(houseClimb, houseDefs)

\* thickness = 0.18, inset = 0.1, gap = 2.2
makeInteriorAABBs(h) ==
  LET x == h.x
      z == h.z
      tag == "interior-" \o h.id
  IN << AABB(x - baseW \div 2 + 1000, 0, z - baseD \div 2 - 900 + 1000,
             x + baseW \div 2 - 1000, baseH, z - baseD \div 2 + 900 + 1000, tag),
        AABB(x - baseW \div 2 + 1000, 0, z + baseD \div 2 - 900 - 1000,
             x - 11000 - 500, baseH, z + baseD \div 2 + 900 - 1000, tag),
        AABB(x + 11000 + 500, 0, z + baseD \div 2 - 900 - 1000,
             x + baseW \div 2 - 1000, baseH, z + baseD \div 2 + 900 - 1000, tag),
        AABB(x - baseW \div 2 - 900 + 1000, 0, z - baseD \div 2 + 1000,
             x - baseW \div 2 + 900 + 1000, baseH, z + baseD \div 2 - 1000, tag),
        AABB(x + baseW \div 2 - 900 - 1000, 0, z - baseD \div 2 + 1000,
             x + baseW \div 2 + 900 - 1000, baseH, z + baseD \div 2 - 1000, tag) >>
\* DESK = { cx: -2.0, cz: -1.6, w: 1.5, d: 0.7, h: 0.6 }
makeDeskAABB(hx, hz) ==
  AABB(hx - 20000 - 7500, 0, hz - 16000 - 3500,
       hx - 20000 + 7500, 6000, hz - 16000 + 3500, "interior-furniture")
\* BED = { cx: 2.2, cz: -1.6, w: 2.0, d: 1.0, h: 0.6 }
makeBedAABB(hx, hz) ==
  AABB(hx + 22000 - 10000, 0, hz - 16000 - 5000,
       hx + 22000 + 10000, 6000, hz - 16000 + 5000, "interior-furniture")

HouseById(id) == CHOOSE i \in 1..Len(houseDefs) : houseDefs[i].id = id
\* App: the effect on [insideHouseId, houseDefs]
interiorBlockersFor(inside) ==
  IF inside = NULL THEN << >>
  ELSE LET h == houseDefs[HouseById(inside)]
       IN makeInteriorAABBs(h) \o << makeBedAABB(h.x, h.z), makeDeskAABB(h.x, h.z) >>

(***************************************************************************)
(* MovementControls                                                        *)
(***************************************************************************)
ToLower(n) ==
  CASE n = "ShiftLeft" -> "shiftleft"
    [] n = "ShiftRight" -> "shiftright"
    [] n = "Shift" -> "shift"
    [] n = "Space" -> "space"
    [] n = "Escape" -> "escape"
    [] n = "KeyW" -> "keyw"
    [] n = "KeyA" -> "keya"
    [] n = "KeyS" -> "keys"
    [] n = "KeyD" -> "keyd"
    [] n = "KeyE" -> "keye"
    [] n = "KeyF" -> "keyf"
    [] n = "KeyQ" -> "keyq"
    [] n = "Q" -> "q"
    [] OTHER -> n

isDown(n) == n \in keys \/ ToLower(n) \in keys

\* an enabled prop that ignores the open board
enabledAlways == TRUE

enabledProp == activeBoard = NULL          \* enabled={!activeBoard}
laddersEnabled == IF build = "App" THEN ~IS_TOUCH ELSE TRUE

\* sin of an angle of 0..pi (1e-5 rad), thousandths: 16 m (pi - m) over
\* 5 pi^2 - 4 m (pi - m), m in milliradians
SinHalfTurn(a) ==
  LET m == a \div 100
      P == PI5 \div 100
      q == m * (P - m)
  IN Round(16 * q * 50, (5 * P * P - 4 * q) \div 20)
SinMilli(a) ==
  LET x == a % (2 * PI5)
  IN IF x <= PI5 THEN SinHalfTurn(x) ELSE -SinHalfTurn(x - PI5)
CosMilli(a) == SinMilli(a + PI5 \div 2)

\* forward = (0,0,-1) turned by the camera quaternion (set from pitch and yaw,
\* order YXZ), flattened and normalised; right = forward x up; thousandths
forwardXZ == [x |-> -SinMilli(yaw), z |-> -CosMilli(yaw)]
rightOf(f) == [x |-> -f.z, z |-> f.x]
rightXZ == rightOf(forwardXZ)

sprintMulOn ==
  IF build = "App" /\ IS_TOUCH
  THEN joy.x * joy.x + joy.y * joy.y > 680 * 680
  ELSE isDown("ShiftLeft") \/ isDown("ShiftRight") \/ isDown("shift")

\* the unnormalised wish vector, thousandths
wishRaw ==
  LET kw == IF isDown("w") THEN 1 ELSE 0
      ks == IF isDown("s") THEN 1 ELSE 0
      ka == IF isDown("a") THEN 1 ELSE 0
      kd == IF isDown("d") THEN 1 ELSE 0
      useJoy == build = "App" /\ (Abs(joy.x) > 10 \/ Abs(joy.y) > 10)
      jx == IF useJoy THEN joy.x ELSE 0
      jy == IF useJoy THEN joy.y ELSE 0
  IN The({ The({ [x |-> f.x * (kw - ks) + r.x * (kd - ka) + Round(f.x * jy + r.x * jx, 1000),
                  z |-> f.z * (kw - ks) + r.z * (kd - ka) + Round(f.z * jy + r.z * jx, 1000)]
                 : r \in {rightOf(f)} })
           : f \in {forwardXZ} })

\* wish.normalize().multiplyScalar(speed * sprintMul)
wish ==
  LET w == wishRaw
      S == IF sprintMulOn THEN (speed * sprint) \div 10 ELSE speed
      lenSq == w.x * w.x + w.z * w.z
      len10 == ISqrt(lenSq * 100)
  IN IF lenSq > 0
     THEN [x |-> Round(w.x * S * 10, len10), z |-> Round(w.z * S * 10, len10)]
     ELSE [x |-> 0, z |-> 0]
\* velocity.current.lerp(wish, 0.18) in part_000; App.tsx moves by wish itself
lerpVelocity(v, w) ==
  [x |-> v.x + Round((w.x - v.x) * LERP_ALPHA, 100),
   z |-> v.z + Round((w.z - v.z) * LERP_ALPHA, 100)]
frameVelocity == IF build = "App" THEN wish ELSE lerpVelocity(velocity, wish)

\* the same test without the exemption of the house the player is in
hitsAABBAnyTag(a, x, z, y) ==
  LET yMin == y - baseEye + EPS_Y
      yMax == y - EPS_Y
  IN /\ x >= a.min[1] - radius /\ x <= a.max[1] + radius
     /\ z >= a.min[3] - radius /\ z <= a.max[3] + radius
     /\ yMax > a.min[2] + EPS_OVERLAP /\ yMin < a.max[2] - EPS_OVERLAP
\* does a (x, z), with the player's eye at height y, hit blocker a
hitsAABB(a, x, z, y) ==
  LET yMin == y - baseEye + EPS_Y
      yMax == y - EPS_Y
  IN /\ ~(insideHouseId # NULL /\ a.tag = insideHouseId)
     /\ x >= a.min[1] - radius /\ x <= a.max[1] + radius
     /\ z >= a.min[3] - radius /\ z <= a.max[3] + radius
     /\ yMax > a.min[2] + EPS_OVERLAP /\ yMin < a.max[2] - EPS_OVERLAP

\* all = [...GLOBAL_BLOCKERS, ...GLOBAL_INTERIOR_BLOCKERS]
collidesXYAt(x, z) ==
  \/ \E i \in 1..Len(GLOBAL_BLOCKERS) : hitsAABB(GLOBAL_BLOCKERS[i], x, z, position.y)
  \/ \E i \in 1..Len(GLOBAL_INTERIOR_BLOCKERS) :
        hitsAABB(GLOBAL_INTERIOR_BLOCKERS[i], x, z, position.y)

probe == Max(0, (radius * PROBE_FACTOR) \div 100)

surfaceUnder(a, x, z) ==
  /\ x >= a.min[1] - EDGE_PAD - probe /\ x <= a.max[1] + EDGE_PAD + probe
  /\ z >= a.min[3] - EDGE_PAD - probe /\ z <= a.max[3] + EDGE_PAD + probe

RECURSIVE groundScan(_, _, _, _, _, _)
groundScan(i, best, x, z, footY, allowHighSnap) ==
  IF i > Len(GLOBAL_WALK_SURFACES) THEN best
  ELSE LET a == GLOBAL_WALK_SURFACES[i]
           top == a.max[2]
           take == surfaceUnder(a, x, z) /\ (allowHighSnap \/ top <= footY + MAX_UP_SNAP)
       IN groundScan(i + 1, IF take THEN Max(best, top) ELSE best, x, z, footY, allowHighSnap)

\* a ground query that forgets the grace window
groundAtLimitedNoGrace(x, z, footY, allowHighSnap) == groundScan(1, 0, x, z, footY, FALSE)

\* a ground query that takes every surface under the player, whatever its height
groundAtLimitedAnyTop(x, z, footY, allowHighSnap) == groundScan(1, 0, x, z, footY, TRUE)

\* groundAtLimited: the highest eligible top under (x, z), 0 when there is none
groundAtLimited(x, z, footY, allowHighSnap) == groundScan(1, 0, x, z, footY, allowHighSnap)

\* index of the first climb volume whose footprint holds (x, z); 0 is null
inClimbVol(x, z) ==
  LET hit == { i \in 1..Len(GLOBAL_CLIMB_VOLUMES) :
                 LET a == GLOBAL_CLIMB_VOLUMES[i]
                 IN x >= a.min[1] /\ x <= a.max[1] /\ z >= a.min[3] /\ z <= a.max[3] }
  IN IF hit = {} THEN 0 ELSE CHOOSE i \in hit : \A j \in hit : i <= j

\* a frame clock that stands still while MovementControls is disabled
lastAfterEnabledOnly(t) == IF enabledProp THEN t ELSE last
\* last.current = now, before the enabled check
lastAfter(t) == t

\* a frame time cut off at 50 ms
frameDtCapped(t) == Min(t - last, 50)
\* dt = (now - last.current) / 1000, in ms
frameDt(t) == t - last

\* a horizontal step that gives up when the full candidate move collides
horizontalStepNoRetry(dt) ==
  LET v == frameVelocity
      nextX == position.x + Times(v.x, dt)
      nextZ == position.z + Times(v.z, dt)
      fullHit == collidesXYAt(nextX, nextZ)
  IN [v |-> v, nextX |-> nextX, nextZ |-> nextZ,
      fullHit |-> fullHit,
      xHit |-> collidesXYAt(nextX, position.z), zHit |-> collidesXYAt(position.x, nextZ),
      nx |-> IF ~fullHit THEN nextX ELSE position.x,
      nz |-> IF ~fullHit THEN nextZ ELSE position.z]

\* horizontal step of useFrame: the candidate move and its axis-separated retry
horizontalStep(dt) ==
  LET v == frameVelocity
      nextX == position.x + Times(v.x, dt)
      nextZ == position.z + Times(v.z, dt)
      fullHit == collidesXYAt(nextX, nextZ)
      xHit == collidesXYAt(nextX, position.z)
      zHit == collidesXYAt(position.x, nextZ)
  IN [v |-> v, nextX |-> nextX, nextZ |-> nextZ,
      fullHit |-> fullHit, xHit |-> xHit, zHit |-> zHit,
      nx |-> IF ~fullHit \/ ~xHit THEN nextX ELSE position.x,
      nz |-> IF ~fullHit \/ ~zHit THEN nextZ ELSE position.z]

\* the ladder state after the horizontal step
climbingAfter(hereClimb) ==
  IF build = "App"
  THEN (IF ~laddersEnabled THEN FALSE ELSE climbing)
  ELSE (IF hereClimb = 0 THEN FALSE ELSE climbing)

\* a climbing branch that lets the jump key act
climbStepJumps(dt, hereClimb) ==
  LET vol == GLOBAL_CLIMB_VOLUMES[hereClimb]
      yc == position.y + (IF isDown("w") THEN Times(climbSpeed, dt) ELSE 0)
                       - (IF isDown("s") THEN Times(climbSpeed, dt) ELSE 0)
      jump == isDown(" ") \/ isDown("Space")
  IN [y |-> Max(vol.min[2] + baseEye, Min(vol.max[2] + baseEye + CLIMB_OVERSHOOT, yc)),
      vY |-> IF jump THEN jumpSpeed ELSE 0, rawY |-> yc, vY1 |-> 0,
      onGround |-> FALSE, jump |-> jump]
\* vertical resolution, climbing branch
climbStep(dt, hereClimb) ==
  LET vol == GLOBAL_CLIMB_VOLUMES[hereClimb]
      yc == position.y + (IF isDown("w") THEN Times(climbSpeed, dt) ELSE 0)
                       - (IF isDown("s") THEN Times(climbSpeed, dt) ELSE 0)
  IN [y |-> Max(vol.min[2] + baseEye, Min(vol.max[2] + baseEye + CLIMB_OVERSHOOT, yc)),
      vY |-> 0, rawY |-> yc, vY1 |-> 0, onGround |-> FALSE, jump |-> FALSE]

\* a gravity branch that jumps whenever the jump key is down
gravityStepJumpsInAir(dt, gY) ==
  LET minY == gY + baseEye
      vY1 == vY - Times(gravity, dt)
      y1 == position.y + Times(vY1, dt)
      dist == y1 - minY
      snap == vY1 <= 0 /\ (dist <= GROUND_SNAP \/ (dist > 0 /\ dist < MAX_STEP))
      y2 == IF snap THEN minY ELSE y1
      vY2 == IF snap THEN 0 ELSE vY1
      onGround == Abs(y2 - minY) < EPS_GROUND \/ y2 < minY
      jump == isDown(" ") \/ isDown("Space")
  IN [y |-> IF onGround THEN minY ELSE y2,
      vY |-> IF jump THEN (IF sprintMulOn THEN (jumpSpeed * 105) \div 100 ELSE jumpSpeed)
                     ELSE IF onGround THEN 0 ELSE vY2,
      rawY |-> y1, vY1 |-> vY1, onGround |-> onGround, jump |-> jump]
\* a gravity branch that lands without stopping the fall
gravityStepKeepsSpeed(dt, gY) ==
  LET minY == gY + baseEye
      vY1 == vY - Times(gravity, dt)
      y1 == position.y + Times(vY1, dt)
      dist == y1 - minY
      snap == vY1 <= 0 /\ (dist <= GROUND_SNAP \/ (dist > 0 /\ dist < MAX_STEP))
      y2 == IF snap THEN minY ELSE y1
      onGround == Abs(y2 - minY) < EPS_GROUND \/ y2 < minY
      jump == (isDown(" ") \/ isDown("Space")) /\ onGround
  IN [y |-> IF onGround THEN minY ELSE y2,
      vY |-> IF jump THEN (IF sprintMulOn THEN (jumpSpeed * 105) \div 100 ELSE jumpSpeed)
                     ELSE vY1,
      rawY |-> y1, vY1 |-> vY1, onGround |-> onGround, jump |-> jump]

\* a gravity branch without a floor: the player keeps falling
gravityStepNoFloor(dt, gY) ==
  LET vY1 == vY - Times(gravity, dt)
      y1 == position.y + Times(vY1, dt)
  IN [y |-> y1, vY |-> vY1, rawY |-> y1, vY1 |-> vY1, onGround |-> FALSE, jump |-> FALSE]

\* vertical resolution, gravity branch, over the ground height gY
gravityStep(dt, gY) ==
  LET minY == gY + baseEye
      vY1 == vY - Times(gravity, dt)
      y1 == position.y + Times(vY1, dt)
      dist == y1 - minY
      snap == vY1 <= 0 /\ (dist <= GROUND_SNAP \/ (dist > 0 /\ dist < MAX_STEP))
      y2 == IF snap THEN minY ELSE y1
      vY2 == IF snap THEN 0 ELSE vY1
      onGround == Abs(y2 - minY) < EPS_GROUND \/ y2 < minY
      jump == (isDown(" ") \/ isDown("Space")) /\ onGround
  IN [y |-> IF onGround THEN minY ELSE y2,
      vY |-> IF jump THEN (IF sprintMulOn THEN (jumpSpeed * 105) \div 100 ELSE jumpSpeed)
                     ELSE IF onGround THEN 0 ELSE vY2,
      rawY |-> y1, vY1 |-> vY1, onGround |-> onGround, jump |-> jump]

verticalStep(t, hz, hereClimb, climbing1) ==
  LET climbBranch == climbing1 /\ hereClimb # 0
      allowHighSnap == t - lastLadderToggle < ROOF_GRACE_MS
      gY == IF climbBranch THEN 0
            ELSE groundAtLimited(hz.nx, hz.nz, position.y - baseEye, allowHighSnap)
  IN The({ The({
           [position |-> [x |-> Clamp(hz.nx, -ARENA_HALF, ARENA_HALF),
                          y |-> r.y,
                          z |-> Clamp(hz.nz, -ARENA_HALF, ARENA_HALF)],
            velocity |-> IF build = "App" THEN velocity ELSE hz.v,
            vY |-> r.vY,
            climbing |-> climbing1,
            climbVolRef |-> hereClimb,
            \* observations of the frame
            dt |-> frameDt(t), nextX |-> hz.nextX, nextZ |-> hz.nextZ,
            fullHit |-> hz.fullHit, xHit |-> hz.xHit, zHit |-> hz.zHit,
            preX |-> hz.nx, preZ |-> hz.nz,
            branch |-> IF climbBranch THEN "climb" ELSE "gravity",
            allowHighSnap |-> ~climbBranch /\ allowHighSnap,
            gY |-> g, vY1 |-> r.vY1, rawY |-> r.rawY,
            onGround |-> r.onGround, jump |-> r.jump]
           : r \in { IF climbBranch THEN climbStep(frameDt(t), hereClimb)
                                    ELSE gravityStep(frameDt(t), g) } })
           : g \in {gY} })

\* MovementControls.useFrame at clock time t, after the enabled check
useFrame(t) ==
  The({ The({ verticalStep(t, hz, hereClimb, climbingAfter(hereClimb))
              : hereClimb \in { IF laddersEnabled THEN inClimbVol(hz.nx, hz.nz) ELSE 0 } })
        : hz \in { horizontalStep(frameDt(t)) } })

\* the teleport-to handler: numeric x, y, z
onTeleportKeepsVY(p) == [position |-> [x |-> p.x, y |-> p.y, z |-> p.z], vY |-> vY]
onTeleport(p) == [position |-> [x |-> p.x, y |-> p.y, z |-> p.z], vY |-> 0]

\* the ladder part of the keydown handler
ladderToggles(k) == k = "f" /\ laddersEnabled /\ climbVolRef # 0
ladderCentre ==
  LET a == GLOBAL_CLIMB_VOLUMES[climbVolRef]
  IN [x |-> (a.min[1] + a.max[1]) \div 2, z |-> (a.min[3] + a.max[3]) \div 2]
(***************************************************************************)
(* InteractAtPoint instances, in mount order                               *)
(***************************************************************************)
boardDefs ==
  << [id |-> "board1", x |-> -100000, z |-> 0],
     [id |-> "board2", x |-> 100000, z |-> 0],
     [id |-> "board3", x |-> 0, z |-> -100000],
     [id |-> "board4", x |-> 0, z |-> 100000] >>
getTopButtonPos == getParkourDefs[Len(getParkourDefs)]

\* early: the instance is mounted before MovementControls, so its frame
\* callback runs before the player is moved; only: the build that mounts it
\* ("" for both)
Inst(id, kind, ref, x, z, range, keyName, early, only) ==
  [id |-> id, kind |-> kind, ref |-> ref, x |-> x, z |-> z, range |-> range,
   keyName |-> keyName, early |-> early, only |-> only]

\* LadderPrompts inside World
ladderInst(h) ==
  Inst("ladder-" \o h.id, "ladder", h.id, ladderX(h), ladderZ(h), 18000, "f", TRUE, "")
\* the second LadderPrompts, which part_000 renders at the end of the Canvas
ladderInst2(h) ==
  Inst("ladder2-" \o h.id, "ladder", h.id, ladderX(h), ladderZ(h), 18000, "f", FALSE, "part_000")
boardInst(b) == Inst(b.id, "board", b.id, b.x, b.z + 10000, 22000, "e", TRUE, "")
topInst ==
  Inst("top", "top", "", getTopButtonPos.x, getTopButtonPos.z, 20000, "e", FALSE, "")
\* picLookPos = (h.x, 2.2, h.z - (baseD / 2 - 0.3) + 0.8)
exhibitInst(h) ==
  Inst("exhibit-" \o h.id, "exhibit", h.id, h.x, h.z - (baseD \div 2 - 3000) + 8000, 22000, "e",
       FALSE, "")
doorInst(h) ==
  Inst("door-" \o h.id, "door", h.id, doorWorld(h).x, doorWorld(h).z, 26000, "q", FALSE, "")

instances ==
  MapSeq(ladderInst, houseDefs) \o MapSeq(boardInst, boardDefs) \o << topInst >>
    \o MapSeq(exhibitInst, houseDefs) \o MapSeq(doorInst, houseDefs)
    \o MapSeq(ladderInst2, houseDefs)
InstIds == { instances[i].id : i \in 1..Len(instances) }

\* the enabled prop each instance is rendered with
instEnabled(I) ==
  CASE I.kind = "ladder" -> /\ enabledProp /\ (build = "App" => ~IS_TOUCH)
                            /\ (I.only = "" \/ I.only = build)
    [] I.kind = "board" -> TRUE
    [] I.kind = "exhibit" -> enabledProp /\ insideHouseId = I.ref
    [] OTHER -> enabledProp

instLabel(I) ==
  CASE I.kind = "ladder" -> "Press F to climb ladder"
    [] I.kind = "board" -> "Press E to open " \o I.ref
    [] I.kind = "top" -> IF darkMode THEN "Press E to switch to Day" ELSE "Press E to switch to Night"
    [] I.kind = "exhibit" -> "Press E to view"
    [] OTHER -> IF insideHouseId = I.ref THEN "Press Q to Exit" ELSE "Press Q to Enter"

\* a proximity test that counts the boundary as in range
withinRangeClosed(I, p) ==
  LET dx == p.x - I.x
      dz == p.z - I.z
  IN Abs(dx) <= I.range /\ Abs(dz) <= I.range /\ dx * dx + dz * dz <= I.range * I.range

\* d < range with d = Math.hypot(dx, dz)
withinRange(I, p) ==
  LET dx == p.x - I.x
      dz == p.z - I.z
  IN Abs(dx) < I.range /\ Abs(dz) < I.range /\ dx * dx + dz * dz < I.range * I.range

\* InteractAtPoint.useFrame of one instance: the new flag, and whether and
\* with what setPrompt is called
interactFrame(I, p) ==
  IF ~instEnabled(I)
  THEN [inRange |-> FALSE, emits |-> inRange[I.id], prompt |-> NULL]
  ELSE LET nowIn == withinRange(I, p)
       IN [inRange |-> nowIn, emits |-> nowIn # inRange[I.id],
           prompt |-> IF nowIn THEN instLabel(I) ELSE NULL]

\* the prompt after the setPrompt calls of instances i..n, in order; fr[i] is
\* the interactFrame result of instance i
RECURSIVE promptAfter(_, _, _)
promptAfter(i, cur, fr) ==
  IF i > Len(fr) THEN cur
  ELSE promptAfter(i + 1, IF fr[i].emits THEN fr[i].prompt ELSE cur, fr)

\* InteractAtPoint keydown handler: does the instance call onTrigger
instFires(I, key) ==
  instEnabled(I) /\ inRange[I.id] /\ ToLower(key) = ToLower(I.keyName)

firedSet(key) == { instances[i].id : i \in { j \in 1..Len(instances) : instFires(instances[j], key) } }
firedOfKind(key, kind) ==
  { i \in 1..Len(instances) : instances[i].kind = kind /\ instFires(instances[i], key) }
(***************************************************************************)
(* Events                                                                  *)
(***************************************************************************)
KeyEvent(key, code) == [key |-> key, code |-> code]
KeyW == KeyEvent("w", "KeyW")
KeyA == KeyEvent("a", "KeyA")
KeyS == KeyEvent("s", "KeyS")
KeyD == KeyEvent("d", "KeyD")
KeyE == KeyEvent("e", "KeyE")
KeyF == KeyEvent("f", "KeyF")
KeyQ == KeyEvent("q", "KeyQ")
KeyShift == KeyEvent("Shift", "ShiftLeft")
KeySpace == KeyEvent(" ", "Space")
KeyEscape == KeyEvent("Escape", "Escape")

(***************************************************************************)
(* MouseLookControls                                                       *)
(***************************************************************************)
\* the mouse and pointer-lock listeners exist unless App.tsx runs on a touch
\* device; the "mobile-look" listener exists only there
mouseListeners == build = "part_000" \/ ~IS_TOUCH
touchListener == build = "App" /\ IS_TOUCH
\* radians per pixel of mouse movement: 0.00375 (App.tsx), 0.0025 (part_000)
mouseLookS == IF build = "App" THEN 375 ELSE 250

clampPitchNone(p) == p
clampPitch(p) == Max(-maxPitch, Min(maxPitch, p))

\* onMouseMove: the look angles it leaves
onMouseMove(mx, my) ==
  IF ~locked \/ ~enabledProp
  THEN [yaw |-> yaw, pitch |-> pitch]
  ELSE [yaw |-> yaw - mx * mouseLookS, pitch |-> clampPitch(pitch - my * mouseLookS)]

\* the detail of a "mobile-look" event
LookDetail(dx, dy) == [defined |-> TRUE, dx |-> dx, dy |-> dy]
NoLookDetail == [defined |-> FALSE, dx |-> 0, dy |-> 0]

\* onLook: the look angles it leaves
onLook(detail) ==
  LET d == IF detail.defined THEN detail ELSE LookDetail(0, 0)
  IN [yaw |-> yaw - d.dx * touchLookS, pitch |-> clampPitch(pitch - d.dy * touchLookS)]

\* A value carried by the detail of a CustomEvent, with its typeof
Num(n) == [type |-> "number", num |-> n]
Undefined == [type |-> "undefined", num |-> 0]
Str == [type |-> "string", num |-> 0]
Detail(x, y, z) == [defined |-> TRUE, x |-> x, y |-> y, z |-> z]
NoDetail == [defined |-> FALSE, x |-> Undefined, y |-> Undefined, z |-> Undefined]

\* the listener of "teleport-to": what it leaves of position and vY
teleportTo(detail) ==
  LET d == IF detail.defined THEN detail ELSE Detail(Undefined, Undefined, Undefined)
  IN IF d.x.type = "number" /\ d.y.type = "number" /\ d.z.type = "number"
     THEN onTeleport([x |-> d.x.num, y |-> d.y.num, z |-> d.z.num])
     ELSE [position |-> position, vY |-> vY]

\* the pose: position, vertical velocity and climbing state
PoseOf(m) == [position |-> m.position, vY |-> m.vY, climbing |-> m.climbing]

\* time between two frames, ms: a 165 Hz frame, a slow frame, a stalled tab
AppDts == {6, 500, 1300}

\* what is remembered of the moment the enabled prop went false: the pose,
\* the pose a frame taken then would have produced, the events and frames
\* handled since
NoOff == [since |-> -1, pose |-> << >>, next |-> << >>]
offNow ==
  [since |-> 0, pose |-> PoseOf([position |-> position, vY |-> vY, climbing |-> climbing]),
   next |-> [adv \in AppDts |-> PoseOf(useFrame(now + adv))]]

\* App renders <MovementControls enabled={!activeBoard} /> whatever activeBoard
\* is: the component stays mounted and its refs live on
mountedWhenEnabled(board) == board = NULL
mounted(board) == TRUE

NoEv ==
  [kind |-> "init", key |-> "", dt |-> 0, moved |-> FALSE, modal |-> FALSE,
   from |-> [x |-> 0, y |-> 0, z |-> 0], fromVY |-> 0, fromInRange |-> {},
   nextX |-> 0, nextZ |-> 0, fullHit |-> FALSE, xHit |-> FALSE, zHit |-> FALSE,
   preX |-> 0, preZ |-> 0, branch |-> "none", allowHighSnap |-> FALSE,
   gY |-> 0, vY1 |-> 0, rawY |-> 0, onGround |-> FALSE, jump |-> FALSE,
   toggled |-> FALSE, fired |-> {}, emits |-> {}, fromEnabled |-> {},
   fromClimbing |-> FALSE, fromClimbVol |-> 0, off |-> NoOff,
   detail |-> NoDetail, repeat |-> FALSE,
   fromYaw |-> 0, fromPitch |-> 0, fromLocked |-> FALSE, look |-> NoLookDetail,
   still |-> TRUE, fromStill |-> TRUE, fromLast |-> 0, fromNow |-> 0, touch |-> 0,
   tickAt |-> 0, fromTickAt |-> 0, frameAt |-> 0, fromFrameAt |-> 0]

\* what every step records of the state it starts from
EvOf(kind) ==
  [NoEv EXCEPT !.kind = kind, !.from = position, !.fromVY = vY,
     !.modal = (activeBoard # NULL \/ exhibit # NULL),
     !.fromInRange = { id \in DOMAIN inRange : inRange[id] },
     !.fromEnabled = { instances[i].id : i \in { j \in 1..Len(instances) : instEnabled(instances[j]) } },
     !.fromClimbing = climbing, !.fromClimbVol = climbVolRef,
     !.fromYaw = yaw, !.fromPitch = pitch, !.fromLocked = locked,
     !.off = IF activeBoard # NULL THEN [ev.off EXCEPT !.since = @ + 1] ELSE NoOff,
     !.still = ev.still, !.fromStill = ev.still, !.fromLast = last, !.fromNow = now,
     !.tickAt = ev.tickAt, !.fromTickAt = ev.tickAt,
     !.frameAt = ev.frameAt, !.fromFrameAt = ev.frameAt]

geometryVars == << GLOBAL_BLOCKERS, GLOBAL_WALK_SURFACES, GLOBAL_CLIMB_VOLUMES >>
deviceVars == << build, IS_TOUCH, yaw, pitch, locked, joy >>

InstOf(id) == instances[CHOOSE i \in 1..Len(instances) : instances[i].id = id]

\* One tick of the frame loop, adv ms after the previous step: the useFrame
\* callbacks in the order the components are mounted in, that is the ladder
\* and whiteboard triggers, MovementControls, then the other triggers
Frame(adv) ==
  /\ \E t \in {now + adv} : \E m \in {useFrame(t)} :
     \E p \in {IF enabledProp THEN m.position ELSE position} :
     \E fr \in {[i \in 1..Len(instances) |->
                    interactFrame(instances[i], IF instances[i].early THEN position ELSE p)]} :
     LET moved == enabledProp
         emits == { instances[i].id : i \in { j \in 1..Len(instances) : fr[j].emits } }
     IN /\ now' = t
        /\ last' = lastAfter(t)
        /\ position' = p
        /\ velocity' = IF moved THEN m.velocity ELSE velocity
        /\ vY' = IF moved THEN m.vY ELSE vY
        /\ climbing' = IF moved THEN m.climbing ELSE climbing
        /\ climbVolRef' = IF moved THEN m.climbVolRef ELSE climbVolRef
        /\ inRange' = [id \in InstIds |->
                         fr[CHOOSE i \in 1..Len(instances) : instances[i].id = id].inRange]
        /\ prompt' = promptAfter(1, prompt, fr)
        /\ ev' = IF moved
                 THEN [EvOf("tick") EXCEPT !.dt = m.dt, !.moved = TRUE,
                         !.nextX = m.nextX, !.nextZ = m.nextZ, !.fullHit = m.fullHit,
                         !.xHit = m.xHit, !.zHit = m.zHit, !.preX = m.preX, !.preZ = m.preZ,
                         !.branch = m.branch, !.allowHighSnap = m.allowHighSnap,
                         !.gY = m.gY, !.vY1 = m.vY1, !.rawY = m.rawY,
                         !.onGround = m.onGround, !.jump = m.jump, !.emits = emits,
                         !.still = (m.nextX = position.x /\ m.nextZ = position.z),
                         !.tickAt = t, !.frameAt = t]
                 ELSE [EvOf("tick") EXCEPT !.dt = frameDt(t), !.emits = emits, !.tickAt = t]
  /\ steps' = steps + 1
  /\ UNCHANGED << geometryVars, GLOBAL_INTERIOR_BLOCKERS, deviceVars, activeId, keys,
                  lastLadderToggle, activeBoard, exhibit, insideHouseId, darkMode >>

\* a tick within the number of steps explored
Tick(adv) == steps < MaxSteps /\ Frame(adv)

\* A keydown event on window: the handlers of MovementControls, of every
\* InteractAtPoint and of the open modals, with the callbacks they invoke
KeyDown(e) ==
  /\ steps < MaxSteps
  /\ LET k == ToLower(e.key)
         toggles == ladderToggles(k)
         doors == firedOfKind(e.key, "door")
         boards == firedOfKind(e.key, "board")
         exhibits == firedOfKind(e.key, "exhibit")
         tops == firedOfKind(e.key, "top")
         door == instances[CHOOSE i \in doors : \A j \in doors : i <= j]
         h == houseDefs[HouseById(door.ref)]
         goingIn == insideHouseId # door.ref
         tp == IF goingIn
               THEN onTeleport(insideSpawn(h))
               ELSE onTeleport([x |-> doorWorld(h).x, y |-> 16000, z |-> doorWorld(h).z + 6000])
         inside1 == IF doors = {} THEN insideHouseId ELSE IF goingIn THEN door.ref ELSE NULL
         closeBoard == e.key = "Escape" \/ k = "q"
         closeExhibit == e.key = "Escape" \/ (build = "App" /\ e.key = "q")
     IN \E board1 \in {IF boards # {}
                         THEN instances[CHOOSE i \in boards : \A j \in boards : i >= j].ref
                         ELSE IF activeBoard # NULL /\ closeBoard THEN NULL ELSE activeBoard} :
        \E alive \in {mounted(board1)} :
        /\ keys' = IF alive THEN keys \cup {k, e.code} ELSE {}
        /\ climbing' = IF ~alive THEN FALSE ELSE IF toggles THEN ~climbing ELSE climbing
        /\ lastLadderToggle' = IF ~alive THEN 0 ELSE IF toggles THEN now ELSE lastLadderToggle
        /\ position' = IF doors # {} THEN tp.position
                       ELSE IF toggles
                            THEN [position EXCEPT !.x = ladderCentre.x, !.z = ladderCentre.z]
                            ELSE position
        /\ vY' = IF ~alive THEN 0 ELSE IF doors # {} THEN tp.vY ELSE vY
        /\ insideHouseId' = inside1
        /\ GLOBAL_INTERIOR_BLOCKERS' = interiorBlockersFor(inside1)
        /\ activeBoard' = board1
        /\ activeId' = IF board1 # NULL THEN 0 ELSE activeId
        /\ exhibit' = IF exhibits # {}
                      THEN instances[CHOOSE i \in exhibits : \A j \in exhibits : i >= j].ref
                      ELSE IF exhibit # NULL /\ closeExhibit THEN NULL ELSE exhibit
        /\ darkMode' = IF tops # {} THEN ~darkMode ELSE darkMode
        /\ ev' = [EvOf("keydown") EXCEPT !.key = e.key, !.toggled = toggles,
                     !.fired = firedSet(e.key), !.repeat = (k \in keys),
                     !.off = IF activeBoard = NULL /\ board1 # NULL THEN offNow ELSE @]
  /\ steps' = steps + 1
  /\ UNCHANGED << geometryVars, deviceVars, now, last, velocity, climbVolRef, prompt, inRange >>

KeyUp(e) ==
  /\ steps < MaxSteps
  /\ ToLower(e.key) \in keys \/ e.code \in keys
  /\ keys' = keys \ {ToLower(e.key), e.code}
  /\ ev' = [EvOf("keyup") EXCEPT !.key = e.key]
  /\ steps' = steps + 1
  /\ UNCHANGED << geometryVars, GLOBAL_INTERIOR_BLOCKERS, deviceVars, activeId, now, last, position,
                  velocity, vY, climbing, climbVolRef, lastLadderToggle, activeBoard, exhibit,
                  insideHouseId, prompt, darkMode, inRange >>

\* what the look events leave alone
notLook == << geometryVars, GLOBAL_INTERIOR_BLOCKERS, build, IS_TOUCH, joy, activeId, now, last, keys,
              position, velocity, vY, climbing, climbVolRef, lastLadderToggle, activeBoard,
              exhibit, insideHouseId, prompt, darkMode, inRange >>

\* A mousemove event on window, movementX = mx, movementY = my
MouseMove(mx, my) ==
  /\ steps < MaxSteps
  /\ \E r \in {IF mouseListeners THEN onMouseMove(mx, my) ELSE [yaw |-> yaw, pitch |-> pitch]} :
        yaw' = r.yaw /\ pitch' = r.pitch
  /\ ev' = [EvOf("mousemove") EXCEPT !.look = LookDetail(mx, my)]
  /\ steps' = steps + 1
  /\ UNCHANGED << notLook, locked >>

\* A "mobile-look" event on window (TouchControls dispatches them)
MobileLook(detail) ==
  /\ steps < MaxSteps
  /\ \E r \in {IF touchListener THEN onLook(detail) ELSE [yaw |-> yaw, pitch |-> pitch]} :
        yaw' = r.yaw /\ pitch' = r.pitch
  /\ ev' = [EvOf("mobile-look") EXCEPT !.look = detail]
  /\ steps' = steps + 1
  /\ UNCHANGED << notLook, locked >>

\* A pointerlockchange event on document; el is document.pointerLockElement
PointerLockChange(el) ==
  /\ steps < MaxSteps
  /\ locked' = IF mouseListeners THEN el = "canvas" ELSE locked
  /\ ev' = EvOf("pointerlockchange")
  /\ steps' = steps + 1
  /\ UNCHANGED << notLook, yaw, pitch >>

\* A "teleport-to" event dispatched on window
Teleport(detail) ==
  /\ steps < MaxSteps
  /\ \E r \in {teleportTo(detail)} : position' = r.position /\ vY' = r.vY
  /\ ev' = [EvOf("teleport") EXCEPT !.detail = detail]
  /\ steps' = steps + 1
  /\ UNCHANGED << geometryVars, GLOBAL_INTERIOR_BLOCKERS, deviceVars, activeId, now, last, keys,
                  velocity, climbing, climbVolRef, lastLadderToggle, activeBoard, exhibit,
                  insideHouseId, prompt, darkMode, inRange >>

(***************************************************************************)
(* TouchControls: the left stick                                           *)
(***************************************************************************)
\* App renders TouchControls only while no whiteboard is open, and
\* TouchControls renders the stick only on a touch device
stickMounted == build = "App" /\ IS_TOUCH /\ activeBoard = NULL

\* the vector onMove fires for a touch dx, dy pixels off the centre of the
\* pad, thousandths: (dx / 60, -dy / 60), scaled to length 1 when longer
stickVector(dx, dy) ==
  LET x == Round(dx * 1000, 60)
      y == -Round(dy * 1000, 60)
      len == ISqrt(x * x + y * y)
  IN IF len > 1000 THEN [x |-> Round(x * 1000, len), y |-> Round(y * 1000, len)]
                   ELSE [x |-> x, y |-> y]

\* the listener of "mobile-joystick" in MovementControls
onJoy(detail) == detail

touchVars == << geometryVars, GLOBAL_INTERIOR_BLOCKERS, build, IS_TOUCH, yaw, pitch, locked,
                now, last, keys, position, velocity, vY, climbing, climbVolRef,
                lastLadderToggle, activeBoard, exhibit, insideHouseId, prompt, darkMode,
                inRange >>

\* touchstart on the pad, changedTouches[0].identifier = id
TouchStart(id) ==
  /\ steps < MaxSteps /\ stickMounted
  /\ activeId' = IF activeId # 0 THEN activeId ELSE id
  /\ joy' = joy
  /\ ev' = [EvOf("touchstart") EXCEPT !.touch = id]
  /\ steps' = steps + 1
  /\ UNCHANGED touchVars

\* touchmove on the pad of the touch id, now dx, dy pixels off the centre
TouchMove(id, dx, dy) ==
  /\ steps < MaxSteps /\ stickMounted
  /\ joy' = IF activeId = 0 \/ id # activeId THEN joy ELSE onJoy(stickVector(dx, dy))
  /\ activeId' = activeId
  /\ ev' = [EvOf("touchmove") EXCEPT !.touch = id]
  /\ steps' = steps + 1
  /\ UNCHANGED touchVars

\* touchend or touchcancel on the pad of the touch id
TouchEnd(id) ==
  /\ steps < MaxSteps /\ stickMounted
  /\ \E ended \in {activeId # 0 /\ id = activeId} :
       /\ activeId' = IF ended THEN 0 ELSE activeId
       /\ joy' = IF ended THEN onJoy([x |-> 0, y |-> 0]) ELSE joy
  /\ ev' = [EvOf("touchend") EXCEPT !.touch = id]
  /\ steps' = steps + 1
  /\ UNCHANGED touchVars

(***************************************************************************)
(* The application in its world                                            *)
(***************************************************************************)
Builds == {"App", "part_000"}

\* places on the open ground the player walks to (x, z); the first is the
\* camera position the Canvas is created with
StartSpots ==
  { [x |-> 0, z |-> 60000, inside |-> NULL],            \* spawn
    [x |-> 168000, z |-> 184600, inside |-> NULL],      \* foot of the ladder of house-3
    [x |-> 152000, z |-> 187000, inside |-> NULL],      \* between door and ladder of house-3
    [x |-> 0, z |-> 125000, inside |-> NULL],           \* in front of board4
    [x |-> 140000, z |-> 207000, inside |-> NULL],      \* at the range of the door of house-3 exactly
    [x |-> 140000, z |-> 207100, inside |-> NULL],      \* 0.01 outside that range
    [x |-> -22000, z |-> -52000, inside |-> NULL],      \* off the corner of a tree
    [x |-> -255000, z |-> 0, inside |-> NULL],     \* at the west arena wall
    [x |-> -5395, z |-> 115421, inside |-> NULL],  \* by board4, 4.55 east of a place by the top button
    [x |-> 140000, z |-> 125000, inside |-> "house-3"] }  \* indoors, before the exhibit of house-3

\* the state of the application with the player at (s.x, y, s.z), moving
\* vertically at v, inside the house `inside` (NULL: outdoors), every
\* InteractAtPoint having run its frame callback there
PoseDev(touch, blockers, walk, climb, s, y, v, inside, b, t0) ==
  /\ build = b
  /\ IS_TOUCH = touch
  /\ yaw = initialYaw
  /\ pitch = initialPitch
  /\ locked = FALSE
  /\ joy = [x |-> 0, y |-> 0]
  /\ activeId = 0
  /\ now = t0
  /\ last = t0
  /\ GLOBAL_BLOCKERS = blockers
  /\ GLOBAL_WALK_SURFACES = walk
  /\ GLOBAL_CLIMB_VOLUMES = climb
  /\ GLOBAL_INTERIOR_BLOCKERS = interiorBlockersFor(inside)
  /\ position = [x |-> s.x, y |-> y, z |-> s.z]
  /\ velocity = [x |-> 0, z |-> 0]
  /\ vY = v
  /\ keys = {}
  /\ climbing = FALSE
  /\ lastLadderToggle = 0
  /\ activeBoard = NULL
  /\ exhibit = NULL
  /\ insideHouseId = inside
  /\ darkMode = FALSE
  /\ climbVolRef = inClimbVol(s.x, s.z)
  /\ inRange = [id \in InstIds |-> instEnabled(InstOf(id)) /\ withinRange(InstOf(id), s)]
  /\ prompt = promptAfter(1, NULL,
                 [i \in 1..Len(instances) |->
                    [emits |-> instEnabled(instances[i]) /\ withinRange(instances[i], s),
                     prompt |-> instLabel(instances[i])]])
  /\ ev = NoEv
  /\ steps = 0

\* the same on a desktop
PoseIn(blockers, walk, climb, s, y, v, inside, b, t0) ==
  PoseDev(FALSE, blockers, walk, climb, s, y, v, inside, b, t0)

\* the same in the world the World component registers
Pose(s, y, v, inside, b, t0) ==
  PoseIn(worldBlockers, worldWalk, worldClimb, s, y, v, inside, b, t0)

\* the state a player standing at rest on the ground at spot s is in
Standing(s, b, t0) == Pose(s, baseEye, 0, s.inside, b, t0)

StartClock == 5000

Init == \E s \in StartSpots, b \in Builds : Standing(s, b, StartClock)

AppKeys == {KeyW, KeyA, KeyF, KeyQ, KeyE}

Next ==
  \/ \E adv \in AppDts : Tick(adv)
  \/ \E e \in AppKeys : KeyDown(e)
  \/ \E e \in AppKeys : KeyUp(e)

Spec == Init /\ [][Next]_vars
(***************************************************************************)
(* The sliding scenario: the registry holds one wall, x in [2, 3],          *)
(* y in [0, 4], z in [-10, 10]; the player is put down beside it            *)
(***************************************************************************)
wallBlocker == AABB(20000, 0, -100000, 30000, 40000, 100000, "")

\* x of the places the player is teleported to, z = 0
WallStartX == {10000, 15000, 18000}

WallInit ==
  \E x \in WallStartX, b \in Builds :
    PoseIn(<< wallBlocker >>, << >>, << >>, [x |-> x, z |-> 0], baseEye, 0, NULL, b, StartClock)

WallKeys == {KeyD, KeyS}
WallDts == {20, 100}

WallNext ==
  \/ \E adv \in WallDts : Tick(adv)
  \/ \E e \in WallKeys : KeyDown(e)
  \/ \E e \in WallKeys : KeyUp(e)

SpecWall == WallInit /\ [][WallNext]_vars

(***************************************************************************)
(* The player in the air: poses of a jump from the roof of house-3 and of   *)
(* a jump from the ground at the spawn, on their way down                   *)
(***************************************************************************)
FallPoses ==
  { [x |-> 140000, z |-> 140000, y |-> 68700, vY |-> -25000],
    [x |-> 140000, z |-> 140000, y |-> 64200, vY |-> -45000],
    [x |-> 0, z |-> 60000, y |-> 23500, vY |-> -25000],
    [x |-> 0, z |-> 60000, y |-> 19000, vY |-> -45000] }

FallInit ==
  \E q \in FallPoses, b \in Builds : Pose(q, q.y, q.vY, NULL, b, StartClock)

FallKeys == {KeySpace, KeyShift, KeyW}
FallDts == {6, 100, 500}

FallNext ==
  \/ \E adv \in FallDts : Tick(adv)
  \/ \E e \in FallKeys : KeyDown(e)
  \/ \E e \in FallKeys : KeyUp(e)

SpecFall == FallInit /\ [][FallNext]_vars

(***************************************************************************)
(* The player at the ladder of house-3: standing at its foot, falling past *)
(* it off the roof, and above its top in a jump off the roof                *)
(***************************************************************************)
ClimbPoses ==
  { [x |-> 168000, z |-> 184600, y |-> 16000, vY |-> 0],
    [x |-> 168000, z |-> 184600, y |-> 50000, vY |-> -67000],
    [x |-> 168000, z |-> 184600, y |-> 70000, vY |-> 45000] }

ClimbInit ==
  \E q \in ClimbPoses, b \in Builds : Pose(q, q.y, q.vY, NULL, b, StartClock)

ClimbKeys == {KeyF, KeyW, KeyS, KeySpace}
ClimbDts == {6, 500}

ClimbNext ==
  \/ \E adv \in ClimbDts : Tick(adv)
  \/ \E e \in ClimbKeys : KeyDown(e)

SpecClimb == ClimbInit /\ [][ClimbNext]_vars

(***************************************************************************)
(* The teleport scenario: "teleport-to" events between keydowns and frames, *)
(* the player in front of board4 or at the foot of the ladder of house-3   *)
(***************************************************************************)
TeleSpots ==
  { [x |-> 0, z |-> 125000, inside |-> NULL],
    [x |-> 168000, z |-> 184600, inside |-> NULL] }

\* details dispatched: the foot of the ladder of house-3, the air 1.4 above
\* the ground in front of board4, the spawn, the middle of house-3 (inside
\* its blocker), and three details that lack a numeric component
TeleDetails ==
  << Detail(Num(168000), Num(16000), Num(184600)),
     Detail(Num(0), Num(30000), Num(125000)),
     Detail(Num(0), Num(16000), Num(60000)),
     Detail(Num(140000), Num(16000), Num(140000)),
     Detail(Num(0), Undefined, Num(60000)),
     Detail(Num(0), Num(16000), Str),
     NoDetail >>

TeleInit == \E s \in TeleSpots, b \in Builds : Standing(s, b, StartClock)
TeleKeys == {KeyF, KeyE, KeyQ}
TeleDts == {100}

TeleNext ==
  \/ \E adv \in TeleDts : Tick(adv)
  \/ \E e \in TeleKeys : KeyDown(e)
  \/ \E i \in 1..Len(TeleDetails) : Teleport(TeleDetails[i])

SpecTeleport == TeleInit /\ [][TeleNext]_vars
(***************************************************************************)
(* The look scenario: mouse, touch-look and pointer-lock events, with the   *)
(* player in front of board4, on a desktop and on a touch device           *)
(***************************************************************************)
LookSpot == [x |-> 0, z |-> 125000, inside |-> NULL]

LookInit ==
  \E b \in Builds, touch \in BOOLEAN :
    /\ b = "part_000" => ~touch
    /\ PoseDev(touch, worldBlockers, worldWalk, worldClimb, LookSpot, baseEye, 0, NULL, b,
               StartClock)

\* movementX, movementY of the mousemove events, pixels
LookMouse == { [mx |-> 0, my |-> 400], [mx |-> 0, my |-> -400], [mx |-> 120, my |-> 0] }
\* details of the mobile-look events
LookTouch == << LookDetail(0, 300), LookDetail(-50, -300), NoLookDetail >>
LookKeys == {KeyE, KeyQ, KeyW}
LookDts == {500}

LookNext ==
  \/ \E m \in LookMouse : MouseMove(m.mx, m.my)
  \/ \E i \in 1..Len(LookTouch) : MobileLook(LookTouch[i])
  \/ \E el \in {"canvas", NULL} : PointerLockChange(el)
  \/ \E e \in LookKeys : KeyDown(e)
  \/ \E adv \in LookDts : Tick(adv)

SpecLook == LookInit /\ [][LookNext]_vars

(***************************************************************************)
(* The player at the door of house-3: indoors at the place the door puts    *)
(* the player down at, and outdoors in front of the door                    *)
(***************************************************************************)
HouseSpots ==
  { [x |-> 140000, z |-> 160000, inside |-> "house-3"],   \* insideSpawn of house-3
    [x |-> 140000, z |-> 187000, inside |-> NULL] }       \* where the door of house-3 lets out

HouseInit == \E s \in HouseSpots, b \in Builds : Standing(s, b, StartClock)

HouseKeys == {KeyS, KeyW, KeyQ}
HouseDts == {100, 500}

HouseNext ==
  \/ \E adv \in HouseDts : Tick(adv)
  \/ \E e \in HouseKeys : KeyDown(e)
  \/ \E e \in HouseKeys : KeyUp(e)

SpecHouse == HouseInit /\ [][HouseNext]_vars

(***************************************************************************)
(* A touch device: the player in front of board4, thumbs on the left stick  *)
(* and on the buttons                                                       *)
(***************************************************************************)
TouchInit ==
  PoseDev(TRUE, worldBlockers, worldWalk, worldClimb, [x |-> 0, z |-> 125000], baseEye, 0,
          NULL, "App", StartClock)

\* identifiers of the touches
TouchIds == {1, 2}
\* offsets of a touch from the centre of the pad, pixels
TouchOffsets == { [dx |-> 0, dy |-> -30], [dx |-> 90, dy |-> 0] }
\* the keydown events the Interact and Enter/Exit buttons dispatch
TouchKeys == {KeyEvent("e", ""), KeyEvent("q", "")}
TouchDts == {100}

TouchNext ==
  \/ \E id \in TouchIds : TouchStart(id)
  \/ \E id \in TouchIds, o \in TouchOffsets : TouchMove(id, o.dx, o.dy)
  \/ \E id \in TouchIds : TouchEnd(id)
  \/ \E e \in TouchKeys : KeyDown(e)
  \/ \E adv \in TouchDts : Tick(adv)

SpecTouch == TouchInit /\ [][TouchNext]_vars

(***************************************************************************)
(* The first seconds of the page: the player at the spawn, the clock of     *)
(* performance.now() not yet at ROOF_GRACE_MS when MovementControls mounts  *)
(***************************************************************************)
EarlyClocks == {300, 1000}

EarlyInit ==
  \E b \in Builds, t0 \in EarlyClocks : Standing([x |-> 0, z |-> 60000, inside |-> NULL], b, t0)

EarlyKeys == {KeyW, KeyShift, KeySpace}
EarlyDts == {100, 500}

EarlyNext ==
  \/ \E adv \in EarlyDts : Tick(adv)
  \/ \E e \in EarlyKeys : KeyDown(e)
  \/ \E e \in EarlyKeys : KeyUp(e)

SpecEarly == EarlyInit /\ [][EarlyNext]_vars

(***************************************************************************)
(* The frame loop left to run: the player in the air over the roof of       *)
(* house-3 and over the ground at the spawn, falling or still rising; at    *)
(* most the w key is pressed, before the first frame                        *)
(***************************************************************************)
LandPoses ==
  { [x |-> 140000, z |-> 140000, y |-> 68700, vY |-> -25000],
    [x |-> 0, z |-> 60000, y |-> 23500, vY |-> -25000],
    [x |-> 0, z |-> 60000, y |-> 30000, vY |-> 40000],
    [x |-> 0, z |-> 60000, y |-> 70000, vY |-> 0] }

LandInit ==
  \E q \in LandPoses, b \in Builds : Pose(q, q.y, q.vY, NULL, b, StartClock)

LandSteps == 10
LandDts == {100, 300}

\* a tick of the frame loop, which requestAnimationFrame keeps scheduling
LandTick(adv) == steps < LandSteps /\ Frame(adv)

LandNext ==
  \/ \E adv \in LandDts : LandTick(adv)
  \/ (steps = 0 /\ KeyDown(KeyW))

\* the frame loop goes on: while frames remain to be run, the next step is taken
LandClock == steps < LandSteps /\ steps' = steps + 1

SpecLand == LandInit /\ [][LandNext]_vars /\ WF_steps(LandClock)

(***************************************************************************)
(* Properties                                                              *)
(***************************************************************************)
EnabledFrame == ev.kind = "tick" /\ ev.moved

\* C1: after every enabled frame update of MovementControls x and z lie in
\* [-26, 26]; an axis whose value before the clamp lay outside that interval
\* ends the frame exactly on the nearer bound.
C1_ArenaClamp ==
  EnabledFrame =>
    /\ position.x >= -260000 /\ position.x <= 260000
    /\ position.z >= -260000 /\ position.z <= 260000
    /\ (ev.preX > 260000 => position.x = 260000)
    /\ (ev.preX < -260000 => position.x = -260000)
    /\ (ev.preZ > 260000 => position.z = 260000)
    /\ (ev.preZ < -260000 => position.z = -260000)

\* a frame whose horizontal step carried x beyond the west bound
C1_Witness == EnabledFrame /\ ev.preX < -260000 /\ position.x = -260000

\* distance from coordinate c to the interval [lo, hi]
GapTo(c, lo, hi) == IF c < lo THEN lo - c ELSE IF c > hi THEN c - hi ELSE 0

\* the player's feet-to-head span and the disc of the given radius around
\* (x, z) overlap the interior of B
Interpenetrates(B) ==
  LET dx == GapTo(position.x, B.min[1], B.max[1])
      dz == GapTo(position.z, B.min[3], B.max[3])
  IN /\ position.y - baseEye < B.max[2] /\ position.y > B.min[2]
     /\ dx < radius /\ dz < radius
     /\ dx * dx + dz * dz < radius * radius

\* the blockers the collision test applies to the player: the shell of the
\* house the player is inside is exempt
Blocks(B) == ~(insideHouseId # NULL /\ B.tag = insideHouseId)

\* the frame just run found the player on the ground, with no movement key
\* down, and left it where it was
AtRest ==
  /\ EnabledFrame /\ ev.branch = "gravity" /\ ev.onGround /\ vY = 0
  /\ wishRaw = [x |-> 0, z |-> 0]
  /\ position = ev.from
  /\ velocity = [x |-> 0, z |-> 0]

\* C2: no interpenetration at rest.  In every reachable state in which the
\* player is grounded with zero velocity, the player's feet-to-head span and
\* footprint of radius 0.4 overlap the interior of no blocker.
C2_NoInterpenetrationAtRest ==
  AtRest =>
    /\ \A i \in 1..Len(GLOBAL_BLOCKERS) :
          Blocks(GLOBAL_BLOCKERS[i]) => ~Interpenetrates(GLOBAL_BLOCKERS[i])
    /\ \A i \in 1..Len(GLOBAL_INTERIOR_BLOCKERS) :
          ~Interpenetrates(GLOBAL_INTERIOR_BLOCKERS[i])

\* the frame's candidate move is displaced along both axes
DiagonalMove == ev.nextX # ev.from.x /\ ev.nextZ # ev.from.z

WallFrame ==
  /\ EnabledFrame /\ GLOBAL_BLOCKERS = << wallBlocker >>
  /\ ev.from = [x |-> 18000, y |-> 16000, z |-> 0] /\ ev.dt = 100
  /\ wishRaw = [x |-> 1000, z |-> 1000]
  /\ ev.nextX = 18000 + 2475 /\ ev.nextZ = 2475

\* C4: the concrete sliding scenario ends with z unchanged or increased and
\* with x not exceeding 2 - radius = 1.6.
C4_WallScenario == WallFrame => (position.z >= 0 /\ position.x <= 16000)

\* an enabled gravity frame of a falling player whose integrated feet come
\* within the snap threshold of the walk-surface top under (x, z), or below it
Landing ==
  /\ EnabledFrame /\ ev.branch = "gravity" /\ ev.fromVY < 0
  /\ ev.gY > 0
  /\ ev.rawY - baseEye - ev.gY <= GROUND_SNAP

JumpKeyDown == isDown(" ") \/ isDown("Space")

\* C5 as stated: ground snap convergence.  A landing frame ends with y equal
\* to surfaceTop + 1.6 exactly and with vY = 0, for any dt.
C5_SnapStopsFall == Landing => (position.y = ev.gY + baseEye /\ vY = 0)

\* C5 as amended: a landing frame ends with y equal to surfaceTop + 1.6
\* exactly, and with vY = 0 unless the jump key is down, in which case vY is
\* the jump speed (7.5, times 1.05 when sprinting).
C5_SnapThenJump ==
  Landing =>
    /\ position.y = ev.gY + baseEye
    /\ ~JumpKeyDown => vY = 0
    /\ JumpKeyDown => vY = (IF sprintMulOn THEN 78750 ELSE 75000)

\* a fall whose integrated eye height ends below the roof of house-3 itself
\* and that the frame ends standing on that roof
C5_Witness ==
  /\ Landing /\ ~JumpKeyDown /\ ev.gY = 45200 /\ ev.dt = 500
  /\ ev.rawY < ev.gY /\ position.y = 61200 /\ vY = 0

\* the walk-surface tops whose footprint, grown by EDGE_PAD + 0.55 * radius =
\* 0.34, holds the place the frame's ground query was made at
TopsUnderQuery ==
  { GLOBAL_WALK_SURFACES[i].max[2] :
      i \in { j \in 1..Len(GLOBAL_WALK_SURFACES) :
                /\ ev.preX >= GLOBAL_WALK_SURFACES[j].min[1] - 3400
                /\ ev.preX <= GLOBAL_WALK_SURFACES[j].max[1] + 3400
                /\ ev.preZ >= GLOBAL_WALK_SURFACES[j].min[3] - 3400
                /\ ev.preZ <= GLOBAL_WALK_SURFACES[j].max[3] + 3400 } }

Highest(S) == IF S = {} THEN 0 ELSE CHOOSE t \in S : \A u \in S : u <= t

GravityFrame == EnabledFrame /\ ev.branch = "gravity"
InGrace == now - lastLadderToggle < 1200
FromFootY == ev.from.y - 16000

\* C6: ladder grace window.  A ground query made less than 1200 ms after the
\* last ladder toggle accepts every walk surface under the player, also one
\* whose top is more than 0.5 above the feet, and a player not moving up ends
\* the frame standing on it; a query made 1200 ms or more after the toggle
\* accepts only surfaces whose top is at most 0.5 above the feet.
C6_LadderGraceWindow ==
  GravityFrame =>
    /\ InGrace => ev.gY = Highest(TopsUnderQuery)
    /\ ~InGrace => ev.gY = Highest({ t \in TopsUnderQuery : t <= FromFootY + 5000 })
    /\ (InGrace /\ ev.gY > FromFootY + 5000 /\ ev.fromVY <= 0) =>
          (position.y = ev.gY + 16000 /\ ev.onGround)

\* 500 ms after toggling climbing off at the foot of the ladder of house-3 the
\* query accepts the roof, 4.52 above the feet, and the player stands on it
C6_Witness ==
  /\ GravityFrame /\ ~climbing /\ now - lastLadderToggle = 500
  /\ FromFootY = 0 /\ ev.gY = 45200 /\ position.y = 61200 /\ vY = 0

\* the horizontal distance from p to the target of I is below its range
Near(I, p) ==
  /\ Abs(p.x - I.x) < I.range /\ Abs(p.z - I.z) < I.range
  /\ (p.x - I.x) * (p.x - I.x) + (p.z - I.z) * (p.z - I.z) < I.range * I.range

\* the player position the frame callback of I read: a trigger mounted
\* before MovementControls runs before it and reads the position the frame
\* started with
ReadBy(I) == IF I.early THEN ev.from ELSE position

C8_FiresOnlyInRange ==
  ev.kind = "keydown" =>
    \A id \in ev.fired :
      /\ ToLower(ev.key) = ToLower(InstOf(id).keyName)
      /\ id \in ev.fromEnabled
      /\ Near(InstOf(id), ev.from)

\* C9: while MovementControls is disabled every frame tick leaves the whole
\* pose unchanged: x, y, z, vertical velocity, climbing flag and climb-volume
\* reference.
C9_DisabledFrameKeepsPose ==
  (ev.kind = "tick" /\ activeBoard # NULL) =>
    /\ position = ev.from /\ vY = ev.fromVY
    /\ climbing = ev.fromClimbing /\ climbVolRef = ev.fromClimbVol

\* a frame run with a board open and the forward key down
C9_Witness ==
  /\ ev.kind = "tick" /\ activeBoard # NULL /\ isDown("w") /\ ~ev.moved
  /\ position = ev.from

TriggerKinds == {"board", "door", "exhibit", "top"}

\* C10: while a foreground dialog is open (whiteboard modal or exhibit image
\* modal) no frame changes the player pose and no keypress fires the callback
\* of a whiteboard, door, exhibit or top-button trigger.
C10_DialogSuppressesAll ==
  ev.modal =>
    /\ ev.kind = "tick" =>
          (position = ev.from /\ vY = ev.fromVY /\ climbing = ev.fromClimbing)
    /\ ev.kind = "keydown" =>
          \A id \in ev.fired : InstOf(id).kind \notin TriggerKinds

\* C11: when the enabled prop goes false (a whiteboard opens) and comes back
\* true (it closes) with no frame and no other event in between, the pose is
\* the one it was when enabled went false, and the next frame produces the
\* pose it would have produced then
Reenabled == ev.kind = "keydown" /\ ev.off.since = 1 /\ activeBoard = NULL
C11_EnableToggleIdempotent ==
  Reenabled =>
    /\ PoseOf([position |-> position, vY |-> vY, climbing |-> climbing]) = ev.off.pose
    /\ \A adv \in AppDts : PoseOf(useFrame(now + adv)) = ev.off.next[adv]
\* the toggle happens while a movement key is held, so that the next frame moves
C11_Witness ==
  /\ Reenabled
  /\ "w" \in keys
  /\ \E adv \in AppDts : useFrame(now + adv).position # position

\* C12: a teleport-to event whose detail carries x, y and z of type number
\* puts the player at exactly (x, y, z), colliding or not, and zeroes the
\* vertical velocity, enabled or not; one that lacks such a component
\* changes neither position nor vertical velocity
Numeric(d) == d.defined /\ \A c \in {d.x, d.y, d.z} : c.type = "number"
C12_Teleport ==
  ev.kind = "teleport" =>
    IF Numeric(ev.detail)
    THEN /\ position = [x |-> ev.detail.x.num, y |-> ev.detail.y.num, z |-> ev.detail.z.num]
         /\ vY = 0
    ELSE position = ev.from /\ vY = ev.fromVY
\* a falling player teleported, while a whiteboard is open, into the blocker of house-3
C12_Witness ==
  /\ ev.kind = "teleport" /\ Numeric(ev.detail) /\ ev.fromVY < 0 /\ vY = 0
  /\ activeBoard # NULL
  /\ position # ev.from
  /\ collidesXYAt(position.x, position.z)

\* C13: after every enabled frame, a player whose (x, z) is in the footprint
\* of no climb volume has the climbing flag false
C13_OffLadderNotClimbing ==
  EnabledFrame => (inClimbVol(position.x, position.z) = 0 => ~climbing)

\* C14: an F keydown flips the climbing flag, stamps the toggle time and
\* re-centres x, z on the climb volume exactly when the position the player
\* has at the keydown lies in that climb volume; otherwise it changes
\* neither the flag, the time stamp nor the position
VolCentre(v) ==
  [x |-> (GLOBAL_CLIMB_VOLUMES[v].min[1] + GLOBAL_CLIMB_VOLUMES[v].max[1]) \div 2,
   z |-> (GLOBAL_CLIMB_VOLUMES[v].min[3] + GLOBAL_CLIMB_VOLUMES[v].max[3]) \div 2]
C14_ToggleWhenInside ==
  (ev.kind = "keydown" /\ ToLower(ev.key) = "f") =>
    LET v == inClimbVol(ev.from.x, ev.from.z)
    IN IF v # 0
       THEN /\ ev.toggled /\ climbing = ~ev.fromClimbing /\ lastLadderToggle = now
            /\ position = [ev.from EXCEPT !.x = VolCentre(v).x, !.z = VolCentre(v).z]
       ELSE ~ev.toggled /\ climbing = ev.fromClimbing /\ position = ev.from

\* C15: a keydown of F delivered while F is already down (auto-repeat, no
\* keyup since the press) does not flip the climbing flag
C15_ToggleEdgeTriggered ==
  (ev.kind = "keydown" /\ ToLower(ev.key) = "f" /\ ev.repeat) => climbing = ev.fromClimbing

\* C16: an enabled frame that takes the climbing branch moves y by the
\* forward/backward input alone, climbSpeed * dt up for w and down for s,
\* kept inside [volume.min.y + 1.6, volume.max.y + 1.6 + 0.2], and ends with
\* vertical velocity 0: neither gravity nor the jump key acts in it
ClimbFrame == EnabledFrame /\ ev.branch = "climb"
ClimbInput ==
  (IF "w" \in keys THEN Times(climbSpeed, ev.dt) ELSE 0)
    - (IF "s" \in keys THEN Times(climbSpeed, ev.dt) ELSE 0)
ClimbLo == GLOBAL_CLIMB_VOLUMES[climbVolRef].min[2] + 16000
ClimbHi == GLOBAL_CLIMB_VOLUMES[climbVolRef].max[2] + 16000 + 2000
C16_ClimbingFrame ==
  ClimbFrame =>
    /\ climbVolRef # 0 /\ climbing
    /\ position.y >= ClimbLo /\ position.y <= ClimbHi
    /\ (ev.from.y + ClimbInput >= ClimbLo /\ ev.from.y + ClimbInput <= ClimbHi)
          => position.y = ev.from.y + ClimbInput
    /\ ev.from.y + ClimbInput < ClimbLo => position.y = ClimbLo
    /\ ev.from.y + ClimbInput > ClimbHi => position.y = ClimbHi
    /\ vY = 0
\* a player falling past the ladder grabs it: w and Space down, the frame
\* lifts y by climbSpeed * dt and stops the fall
C16_Witness ==
  /\ ClimbFrame /\ ev.fromVY < 0 /\ "w" \in keys /\ " " \in keys
  /\ position.y > ev.from.y /\ position.y < ClimbHi

\* C17: a candidate (x, z) is blocked if and only if some AABB of blockers
\* or interiorBlockers whose tag is not the id of the house the player is in
\* holds (x, z) in its X/Z footprint inflated by 0.4 and its vertical span
\* overlaps [y - 1.6 + 0.02, y - 0.02] by more than 1e-3
Range(f) == { f[i] : i \in 1..Len(f) }
FootprintHolds(a, x, z) ==
  /\ a.min[1] - 4000 <= x /\ x <= a.max[1] + 4000
  /\ a.min[3] - 4000 <= z /\ z <= a.max[3] + 4000
SpanOverlaps(a, y) ==
  /\ y - 200 > a.min[2] + 10
  /\ y - 16000 + 200 < a.max[2] - 10
BlockedAt(x, z, y) ==
  \E a \in Range(GLOBAL_BLOCKERS) \cup Range(GLOBAL_INTERIOR_BLOCKERS) :
    /\ ~(insideHouseId # NULL /\ a.tag = insideHouseId)
    /\ FootprintHolds(a, x, z)
    /\ SpanOverlaps(a, y)
C17_CollisionPredicate ==
  EnabledFrame =>
    /\ ev.fullHit <=> BlockedAt(ev.nextX, ev.nextZ, ev.from.y)
    /\ ev.xHit <=> BlockedAt(ev.nextX, ev.from.z, ev.from.y)
    /\ ev.zHit <=> BlockedAt(ev.from.x, ev.nextZ, ev.from.y)
\* indoors, a move to a place that is inside the footprint of the shell of
\* the house the player is in, and is not blocked
C17_Witness ==
  /\ EnabledFrame /\ insideHouseId # NULL /\ ~ev.fullHit
  /\ position # ev.from
  /\ \E a \in Range(GLOBAL_BLOCKERS) :
        a.tag = insideHouseId /\ FootprintHolds(a, ev.nextX, ev.nextZ) /\ SpanOverlaps(a, ev.from.y)

\* C18: a frame gives the player an upward velocity only if it is enabled,
\* not climbing, the jump key is down and the player is on the ground in it,
\* and that velocity is the jump speed (7.5, times 1.05 when sprinting); a
\* frame that ends with the player in the air only takes gravity * dt off
\* the vertical velocity, jump key down or not
JumpSpeedNow == IF sprintMulOn THEN 78750 ELSE 75000
GainsUpwardSpeed == vY > 0 /\ (vY > ev.fromVY \/ (EnabledFrame /\ vY = ev.fromVY))
EndsInAir == EnabledFrame /\ ev.branch = "gravity" /\ position.y > ev.gY + 16000
C18_JumpOnlyGrounded ==
  /\ GainsUpwardSpeed =>
        /\ EnabledFrame /\ ev.branch = "gravity" /\ JumpKeyDown
        /\ position.y = ev.gY + 16000
        /\ vY = JumpSpeedNow
  /\ EndsInAir => vY = ev.fromVY - Times(200000, ev.dt)
\* a frame of a fall with the jump key held: the player is still in the air
\* after it and keeps falling
C18_Witness ==
  /\ EndsInAir /\ JumpKeyDown /\ ev.fromVY < 0 /\ vY < ev.fromVY
\* a landing with Space and Shift down: the frame ends with the sprint jump speed
C18_JumpReached ==
  /\ GainsUpwardSpeed /\ ev.fromVY < 0 /\ sprintMulOn /\ vY = 78750

\* C19: after a frame, whenever some enabled InteractAtPoint instance is in
\* range the prompt shown is the label of an enabled instance in range: no
\* enter, exit or disable transition of another instance removes it
InRangeNow ==
  { i \in 1..Len(instances) :
      /\ instEnabled(instances[i]) /\ inRange[instances[i].id]
      /\ Near(instances[i], position) }
C19_PromptOfInstanceInRange ==
  (ev.kind = "tick" /\ InRangeNow # {}) =>
    \E i \in InRangeNow : prompt = instLabel(instances[i])

\* C20: the pitch always lies in [-(pi/2 - 0.05), pi/2 - 0.05]; on a desktop
\* a mousemove received while the controller is disabled or the pointer is
\* not locked changes neither yaw nor pitch; no look input changes the
\* player position
LookInput == ev.kind \in {"mousemove", "mobile-look"}
C20_LookController ==
  /\ pitch >= -152080 /\ pitch <= 152080
  /\ (ev.kind = "mousemove" /\ ~IS_TOUCH /\ (activeBoard # NULL \/ ~ev.fromLocked))
        => (yaw = ev.fromYaw /\ pitch = ev.fromPitch)
  /\ LookInput => position = ev.from
\* a mouse movement on a desktop, pointer locked and controller enabled, that
\* would take the pitch past the limit: it stops at pi/2 - 0.05
C20_Witness ==
  /\ ev.kind = "mousemove" /\ ~IS_TOUCH /\ ev.fromLocked /\ activeBoard = NULL
  /\ ev.fromPitch - ev.look.dy * mouseLookS > 152080
  /\ pitch = 152080

\* C21: the horizontal velocity of the candidate move is smoothed toward the
\* desired velocity: the first enabled frame with a movement intent after the
\* player stood still has a candidate move shorter than desired velocity times
\* dt, and the first enabled frame without a movement intent after a frame
\* that moved still has a candidate move
CandidateMove == [x |-> ev.nextX - ev.from.x, z |-> ev.nextZ - ev.from.z]
DesiredMove == [x |-> Times(wish.x, ev.dt), z |-> Times(wish.z, ev.dt)]
LenSq10(v) == (v.x \div 10) * (v.x \div 10) + (v.z \div 10) * (v.z \div 10)
C21_SmoothedVelocity ==
  (EnabledFrame /\ ev.dt > 0) =>
     /\ (ev.fromStill /\ wish # [x |-> 0, z |-> 0])
           => LenSq10(CandidateMove) < LenSq10(DesiredMove)
     /\ (~ev.fromStill /\ wish = [x |-> 0, z |-> 0])
           => CandidateMove # [x |-> 0, z |-> 0]

\* the velocity the frame just run moved by
UsedVelocity == IF build = "App" THEN wish ELSE velocity

\* the straight move from ev.from to the position passes through the centre
\* of blocker B, which stands at the player's height, and both ends are clear
\* of B's footprint inflated by the radius
Crossed(B) ==
  LET cx == (B.min[1] + B.max[1]) \div 2
      cz == (B.min[3] + B.max[3]) \div 2
      ax == (cx - ev.from.x) \div 100
      az == (cz - ev.from.z) \div 100
      bx == (position.x - ev.from.x) \div 100
      bz == (position.z - ev.from.z) \div 100
  IN /\ position.y - baseEye < B.max[2] /\ position.y > B.min[2]
     /\ ev.from.y - baseEye < B.max[2] /\ ev.from.y > B.min[2]
     /\ ev.from.x > B.max[1] + radius /\ position.x < B.min[1] - radius
     /\ ev.from.z > B.max[3] + radius /\ position.z < B.min[3] - radius
     /\ Abs(ax * bz - az * bx) <= Abs(bx) + Abs(bz)

\* C22: the frame dt is not clamped and the horizontal collision test looks
\* only at the end position of the candidate move: in every enabled frame dt
\* is the whole time since the previous tick, the candidate is the position
\* plus velocity times dt, a candidate whose end position is free is taken
\* whatever lies on the way, and only the arena clamp bounds the result
C22_EndPositionOnly ==
  EnabledFrame =>
    /\ ev.dt = now - ev.fromLast
    /\ ev.nextX = ev.from.x + Times(UsedVelocity.x, ev.dt)
    /\ ev.nextZ = ev.from.z + Times(UsedVelocity.z, ev.dt)
    /\ ev.fullHit = (\E i \in 1..Len(GLOBAL_BLOCKERS) :
                        hitsAABB(GLOBAL_BLOCKERS[i], ev.nextX, ev.nextZ, ev.from.y))
                    \/ (\E i \in 1..Len(GLOBAL_INTERIOR_BLOCKERS) :
                          hitsAABB(GLOBAL_INTERIOR_BLOCKERS[i], ev.nextX, ev.nextZ, ev.from.y))
    /\ ~ev.fullHit => (ev.preX = ev.nextX /\ ev.preZ = ev.nextZ)
    /\ position.x = Clamp(ev.preX, -ARENA_HALF, ARENA_HALF)
    /\ position.z = Clamp(ev.preZ, -ARENA_HALF, ARENA_HALF)

\* tunnelling: a frame of 1.3 s carried the player diagonally from one corner
\* of a tree to beyond the opposite corner, through the trunk
C22_Witness ==
  /\ EnabledFrame /\ ~ev.fullHit /\ ev.dt = 1300
  /\ \E i \in 1..Len(GLOBAL_BLOCKERS) : Crossed(GLOBAL_BLOCKERS[i])

\* the tops of the walk surfaces whose footprint, inflated by
\* EDGE_PAD + radius * PROBE_FACTOR on each side, holds the place of the
\* frame's ground query and that are eligible under allowHighSnap
EligibleTops(allowHighSnap) ==
  { GLOBAL_WALK_SURFACES[i].max[2] :
      i \in { j \in 1..Len(GLOBAL_WALK_SURFACES) :
                /\ ev.preX >= GLOBAL_WALK_SURFACES[j].min[1] - EDGE_PAD - (radius * PROBE_FACTOR) \div 100
                /\ ev.preX <= GLOBAL_WALK_SURFACES[j].max[1] + EDGE_PAD + (radius * PROBE_FACTOR) \div 100
                /\ ev.preZ >= GLOBAL_WALK_SURFACES[j].min[3] - EDGE_PAD - (radius * PROBE_FACTOR) \div 100
                /\ ev.preZ <= GLOBAL_WALK_SURFACES[j].max[3] + EDGE_PAD + (radius * PROBE_FACTOR) \div 100
                /\ (allowHighSnap \/ GLOBAL_WALK_SURFACES[j].max[2] <= FromFootY + MAX_UP_SNAP) } }

\* C23: the ground query of a frame returns the maximum top over the eligible
\* walk surfaces under the player, 0 when none qualifies, and without grace
\* never a value above max(0, footY + MAX_UP_SNAP)
C23_GroundAtLimited ==
  GravityFrame =>
    /\ EligibleTops(ev.allowHighSnap) # {} =>
          (ev.gY \in EligibleTops(ev.allowHighSnap)
           /\ \A t \in EligibleTops(ev.allowHighSnap) : t <= ev.gY)
    /\ EligibleTops(ev.allowHighSnap) = {} => ev.gY = 0
    /\ ~ev.allowHighSnap => ev.gY <= Max(0, FromFootY + MAX_UP_SNAP)

\* a query without grace under the eaves of a roof 4.52 above the feet: the
\* roof is not eligible and the query returns 0
C23_Witness ==
  /\ GravityFrame /\ ~ev.allowHighSnap /\ ev.gY = 0
  /\ EligibleTops(TRUE) # {} /\ EligibleTops(FALSE) = {}

\* a query without grace that returns the top of a surface the player stands on
C23_OnSurface ==
  /\ GravityFrame /\ ~ev.allowHighSnap /\ ev.gY > 0
  /\ ev.gY \in EligibleTops(FALSE)

\* C24: a frame has no effect through a disabled InteractAtPoint: the
\* instance's in-range flag is after the frame what it was before it, and the
\* instance does not call setPrompt, also in the first disabled frame after
\* the instance was in range
C24_DisabledInstanceNoEffect ==
  ev.kind = "tick" =>
    \A id \in InstIds \ ev.fromEnabled :
       /\ inRange[id] = (id \in ev.fromInRange)
       /\ id \notin ev.emits

\* the grace window as the frame just run saw it
GraceAtFrame == now - lastLadderToggle < ROOF_GRACE_MS
FeetY == position.y - baseEye

\* the feet are at or above the ground the frame used: the result of the
\* ground query in the gravity branch, the foot of the volume on a ladder
AboveGroundUsed ==
  /\ ev.branch = "gravity" => (ev.gY >= 0 /\ position.y >= ev.gY + baseEye)
  /\ ev.branch = "climb" =>
        position.y >= GLOBAL_CLIMB_VOLUMES[climbVolRef].min[2] + baseEye
  /\ FeetY >= 0

\* C25 as stated: after every enabled frame the feet are not below the ground
\* used in the frame, and the player is below no walk surface under it that
\* was eligible at the start of the frame
C25_NeverBelowEligibleSurface ==
  EnabledFrame =>
    /\ AboveGroundUsed
    /\ \A t \in EligibleTops(GraceAtFrame) : FeetY >= t

\* C25, amended: after every enabled frame the feet are not below the ground
\* used in the frame (y >= groundTop + 1.6 with groundTop >= 0 in the gravity
\* branch, y >= volume.min.y + 1.6 in the climbing branch); the player never
\* ends a frame below the baseline plane, and never ends a frame of the
\* gravity branch below a walk surface that was eligible at its start
C25_FeetNotBelowGround ==
  EnabledFrame =>
    /\ AboveGroundUsed
    /\ ev.branch = "gravity" => \A t \in EligibleTops(ev.allowHighSnap) : FeetY >= t

\* a frame of 0.5 s whose integration carried the player below the roof it
\* was above, and which ends with the player standing on the roof
C25_Witness ==
  /\ GravityFrame /\ ev.dt = 500 /\ ev.gY > 0
  /\ ev.rawY < ev.gY + baseEye /\ position.y = ev.gY + baseEye

\* the frame just run ended with the player standing on the ground it used
Grounded == GravityFrame /\ position.y = ev.gY + baseEye /\ vY = 0

\* a grounded player is grounded after the next frame, when that frame is an
\* enabled one of the gravity branch without the jump key, at the same x and z
\* and over the same ground
StaysGrounded ==
  (/\ Grounded /\ ~JumpKeyDown
   /\ ev'.kind = "tick" /\ ev'.moved /\ ev'.branch = "gravity"
   /\ position'.x = position.x /\ position'.z = position.z /\ ev'.gY = ev.gY)
    => Grounded'

\* C26: landing is eventual.  While enabled frames keep ticking with dt > 0,
\* the jump key is not held and the player is not climbing, the player
\* reaches a grounded state (y = groundTop + 1.6, vY = 0) from any height, and
\* a grounded player stays grounded in every later frame in which x, z and
\* the ground under them do not change
C26_LandingEventual == <>Grounded /\ [][StaysGrounded]_vars

\* a second or more into the run the player stands on the ground at the
\* spawn, and the frame before found it standing there too
C26_Witness ==
  /\ Grounded /\ position.y = baseEye /\ ev.gY = 0
  /\ ev.from.y = baseEye /\ ev.fromVY = 0 /\ now >= StartClock + 1000

\* (x, z) of p lies within the footprint of house h
InFootprint(h, p) ==
  /\ p.x >= h.x - baseW \div 2 /\ p.x <= h.x + baseW \div 2
  /\ p.z >= h.z - baseD \div 2 /\ p.z <= h.z + baseD \div 2

\* C27: the inside-house identity agrees with the player's position.  After a
\* frame insideHouseId = h implies that (x, z) lies within the footprint of
\* house h, and a player outside every footprint has insideHouseId = null:
\* the shell exemption of h is never in force for a player outside h
C27_InsideAgreesWithPosition ==
  ev.kind = "tick" =>
    /\ \A i \in 1..Len(houseDefs) :
          insideHouseId = houseDefs[i].id => InFootprint(houseDefs[i], position)
    /\ (\A i \in 1..Len(houseDefs) : ~InFootprint(houseDefs[i], position))
          => insideHouseId = NULL

\* C28: whenever no touch is active on the left stick, also when the stick has
\* been unmounted or remounted, the joystick vector the movement core reads
\* is (0, 0)
C28_NoStaleJoystick == activeId = 0 => joy = [x |-> 0, y |-> 0]

\* C29: the high-snap grace is active only as a consequence of a ladder
\* toggle.  As long as no ladder toggle has happened, allowHighSnap is false
\* in every frame, also within the first 1200 ms of the clock, and the ground
\* query accepts no surface more than MAX_UP_SNAP above the feet
C29_GraceOnlyAfterToggle ==
  (GravityFrame /\ lastLadderToggle = 0 /\ "f" \notin keys) =>
     /\ ~ev.allowHighSnap
     /\ ev.gY <= Max(0, FromFootY + MAX_UP_SNAP)

\* C30: the frame clock is advanced on every tick, disabled ticks included:
\* after a tick last is the time of that tick, and the dt of an enabled frame
\* is the time since the tick immediately before it, also when that tick was
\* a disabled one
C30_ClockAdvancesOnEveryTick ==
  /\ ev.kind = "tick" => last = now
  /\ (ev.kind = "tick" /\ ev.fromTickAt > 0) => ev.dt = now - ev.fromTickAt

\* the first enabled frame after a whiteboard was open for 1.3 s, a disabled
\* tick having come in at the end of that time: its dt is the 6 ms since that
\* tick
C30_Witness ==
  /\ EnabledFrame /\ ev.fromTickAt > ev.fromFrameAt
  /\ ev.dt = now - ev.fromTickAt /\ ev.dt = 6 /\ now - StartClock > 1300
====
